---- MODULE Spec2Model ----
(***************************************************************************)
(* Model of the paged memory allocator of src/allocator.py.                *)
(*                                                                         *)
(* Python strings are sequences of one-character strings, so that the      *)
(* conversions between integers and binary text (bin, int(.., 2),          *)
(* Binary.shorten) are computed and not assumed.  A Page is identified by  *)
(* its index in the list Allocator.pages; a Block by its position in its   *)
(* page's list.                                                            *)
(***************************************************************************)
EXTENDS Integers, Sequences, FiniteSets, TLC

VARIABLES pages, free_blocks, allocators, last, calls

vars == <<pages, free_blocks, allocators, last, calls>>

---------------------------------------------------------------------------
(* Bounds of the model *)

\* longest sequence of calls followed after the first construction
MaxCalls == 5

\* most Allocator instances constructed in one run (SpecShared)
MaxAllocators == 2

\* largest arguments of a lone Allocator(memory, pages_count, page_size)
MaxMemory == 32
MaxPagesCount == 8
MaxPageSize == 8

\* largest arguments of a lone Block(start_addr, end_addr, occupied_volume)
MaxStart == 2
MaxEnd == 520
MaxVolume == 2

\* largest integer written as a binary text in a comparison of two Binary
MaxValue == 5

\* constructor arguments (memory, pages_count, page_size) tried
Configs ==
    { [memory |-> 4,   pages_count |-> 2, page_size |-> 2],
      [memory |-> 256, pages_count |-> 1, page_size |-> 200] }

\* constructor arguments of the second instance, one of them inconsistent
Configs2 ==
    { [memory |-> 2, pages_count |-> 1, page_size |-> 2],
      [memory |-> 4, pages_count |-> 1, page_size |-> 2] }

\* sizes requested from an allocator whose page size is ps
Sizes(ps) == IF ps > 8 THEN {0, ps \div 2, ps - 1, ps, ps + 1} ELSE 0..(ps + 1)

\* occupied volumes requested from an allocator whose page size is ps
Vols(ps) == {0, 2, ps + 1}

---------------------------------------------------------------------------
(* Python text and integers *)

NoneAddr == <<"None">>

RECURSIVE Digits(_)
Digits(n) == IF n < 2 THEN <<IF n = 1 THEN "1" ELSE "0">>
             ELSE Digits(n \div 2) \o <<IF n % 2 = 1 THEN "1" ELSE "0">>

\* bin(n)
bin(n) == IF n >= 0 THEN <<"0", "b">> \o Digits(n)
          ELSE <<"-", "0", "b">> \o Digits(0 - n)

RECURSIVE DigitsVal(_)
DigitsVal(d) == IF d = <<>> THEN 0
                ELSE 2 * DigitsVal(SubSeq(d, 1, Len(d) - 1))
                     + (IF d[Len(d)] = "1" THEN 1 ELSE 0)

Has0bPrefix(s) == Len(s) >= 2 /\ s[1] = "0" /\ s[2] = "b"

\* int(s, 2) for the texts the allocator hands to it: optional sign,
\* optional 0b prefix, binary digits
int2(s) ==
    LET neg  == Len(s) >= 1 /\ s[1] = "-"
        body == IF neg THEN Tail(s) ELSE s
        digs == IF Has0bPrefix(body) THEN SubSeq(body, 3, Len(body)) ELSE body
    IN IF neg THEN 0 - DigitsVal(digs) ELSE DigitsVal(digs)

\* '0b' in binary
Contains0b(s) == \E i \in 1..(Len(s) - 1) : s[i] = "0" /\ s[i + 1] = "b"

\* Binary.shorten
shorten(binary) == IF Contains0b(binary) THEN SubSeq(binary, 3, Len(binary))
                   ELSE binary

\* Binary.__init__ : err is "none" or the exception raised
Binary(binary) ==
    LET v == shorten(binary)
    IN IF \A i \in 1..Len(v) : v[i] \in {"0", "1"}
       THEN [err |-> "none", value |-> v]
       ELSE [err |-> "NotBinaryNumberException", value |-> <<>>]

\* int(x / 255): true division, then truncation towards zero
TruncDiv255(x) == IF x >= 0 THEN x \div 255 ELSE 0 - ((0 - x) \div 255)

\* calculate_size, on the .value texts of two Binary objects
calculate_size(start_value, end_value) ==
    TruncDiv255(int2(end_value) - int2(start_value))

NoBlock == [start_addr |-> <<>>, end_addr |-> <<>>, size |-> 0, occupied_volume |-> 0]

\* Block.__init__
Block(start_addr, end_addr, occupied_volume) ==
    LET s  == Binary(start_addr)
        e  == Binary(end_addr)
        sz == calculate_size(s.value, e.value)
    IN IF s.err # "none" THEN [err |-> s.err, block |-> NoBlock]
       ELSE IF e.err # "none" THEN [err |-> e.err, block |-> NoBlock]
       ELSE IF sz <= 0 THEN [err |-> "NotCorrectAddressesException", block |-> NoBlock]
       ELSE IF occupied_volume > sz THEN [err |-> "OutOfMemoryError", block |-> NoBlock]
       ELSE [err |-> "none",
             block |-> [start_addr |-> s.value, end_addr |-> e.value,
                        size |-> sz, occupied_volume |-> occupied_volume]]

\* Page.__init__ (construction succeeds for every page the allocator lays out)
Page(start_addr, end_addr) ==
    [start_addr |-> Binary(start_addr).value, end_addr |-> Binary(end_addr).value,
     occupied_volume |-> 0, blocks |-> <<>>]

\* Page.append on page p of the page list pgs
PageAppend(pgs, p, block) ==
    [pgs EXCEPT ![p].blocks = Append(@, block),
                ![p].occupied_volume = @ + block.size]

RemoveAt(seq, i) == SubSeq(seq, 1, i - 1) \o SubSeq(seq, i + 1, Len(seq))

\* a removal that leaves occupied_volume as it was
PageRemove_keep(pgs, p, i) ==
    [pgs EXCEPT ![p].blocks = RemoveAt(@, i)]

\* Page.remove of the block at position i of page p
PageRemove(pgs, p, i) ==
    [pgs EXCEPT ![p].blocks = RemoveAt(@, i),
                ![p].occupied_volume = @ - pgs[p].blocks[i].size]

\* Allocator.end_address
end_address(start, size) == bin(int2(start) + (size * 255) + (size - 1))

\* smallest power of two that is >= n : 2 ** ceil(log2(n)) for n >= 1
RECURSIVE Pow2From(_, _)
Pow2From(p, n) == IF p >= n THEN p ELSE Pow2From(2 * p, n)
\* no rounding of the page size
CeilPow2_none(n) == n

CeilPow2(n) == Pow2From(1, n)

---------------------------------------------------------------------------
(* Allocator: operations as functions of the class-level lists             *)
(* Allocator.pages (pgs), Allocator.free_blocks (fb) and the instance      *)
(* attribute page_size (ps).  Each returns the exception raised ("none"    *)
(* when it returns normally), the value returned (ret: a page index, 0 for *)
(* None), the lists as the call leaves them, and for the properties the    *)
(* branch taken (path), the Block constructed (new) and the page it was    *)
(* appended to (at).                                                       *)

NoPage == 0

\* Allocator._calculate_addresses : (start, end) and the advanced cursor
calculate_addresses(address, size) ==
    LET end == end_address(address, size)
    IN [start |-> address, end |-> end, address |-> bin(int2(end) + 1)]

\* the loop of Allocator.__init__ : n more pages appended to pgs
RECURSIVE LayOut(_, _, _, _)
LayOut(pgs, address, size, n) ==
    IF n <= 0 THEN [pages |-> pgs, address |-> address]
    ELSE LET a == calculate_addresses(address, size)
         IN LayOut(Append(pgs, Page(a.start, a.end)), a.address, size, n - 1)

\* Allocator.__init__
AllocatorInit(pgs, memory, pages_count, page_size) ==
    LET ps  == CeilPow2(page_size)
        lay == LayOut(pgs, <<"0", "b", "0">>, ps, pages_count)
    IN IF ps * pages_count # memory
       THEN [err |-> "MemoryAllocationError", pages |-> pgs,
             self |-> [memory |-> (256 * memory) - 1, page_size |-> ps,
                       address |-> <<"0", "b", "0">>]]
       ELSE [err |-> "none", pages |-> lay.pages,
             self |-> [memory |-> (256 * memory) - 1, page_size |-> ps,
                       address |-> lay.address]]

Raise(e, pgs, fb, path) ==
    [err |-> e, ret |-> NoPage, pages |-> pgs, free_blocks |-> fb,
     path |-> path, new |-> NoBlock, at |-> NoPage]

\* the last such entry instead of the first
FirstFree_last(fb, size) ==
    IF \E i \in 1..Len(fb) : fb[i].BLOCK.size = size
    THEN CHOOSE i \in 1..Len(fb) :
            /\ fb[i].BLOCK.size = size
            /\ \A j \in (i + 1)..Len(fb) : fb[j].BLOCK.size # size
    ELSE 0

\* index of the first registry entry whose block has this size, 0 if none
FirstFree(fb, size) ==
    IF \E i \in 1..Len(fb) : fb[i].BLOCK.size = size
    THEN CHOOSE i \in 1..Len(fb) :
            /\ fb[i].BLOCK.size = size
            /\ \A j \in 1..(i - 1) : fb[j].BLOCK.size # size
    ELSE 0

\* the comparison made strict
FirstFit_strict(pgs, ps, size) ==
    IF \E p \in 1..Len(pgs) : ps - pgs[p].occupied_volume > size
    THEN CHOOSE p \in 1..Len(pgs) :
            /\ ps - pgs[p].occupied_volume > size
            /\ \A q \in 1..(p - 1) : ~(ps - pgs[q].occupied_volume > size)
    ELSE 0

\* index of the first page with page_size - occupied_volume >= size, 0 if none
FirstFit(pgs, ps, size) ==
    IF \E p \in 1..Len(pgs) : ps - pgs[p].occupied_volume >= size
    THEN CHOOSE p \in 1..Len(pgs) :
            /\ ps - pgs[p].occupied_volume >= size
            /\ \A q \in 1..(p - 1) : ~(ps - pgs[q].occupied_volume >= size)
    ELSE 0

\* the start address alloc picks in page p
FreshStart(pgs, p) ==
    IF pgs[p].blocks # <<>>
    THEN bin(int2(pgs[p].blocks[Len(pgs[p].blocks)].end_addr) + 1)
    ELSE pgs[p].start_addr

\* Allocator.alloc past its size guard: reuse of a registry entry of exactly
\* this size, else first-fit placement
alloc_place(pgs, fb, ps, size, occupied_volume) ==
    LET index == FirstFree(fb, size)
    IN IF index # 0
       THEN LET b == fb[index].BLOCK
                p == fb[index].PAGE
                r == Block(b.start_addr, b.end_addr, occupied_volume)
            IN IF r.err # "none" THEN Raise(r.err, pgs, fb, "reuse")
               ELSE [err |-> "none", ret |-> p,
                     pages |-> PageAppend(pgs, p, r.block),
                     free_blocks |-> RemoveAt(fb, index),
                     path |-> "reuse", new |-> r.block, at |-> p]
       ELSE LET p == FirstFit(pgs, ps, size)
            IN IF p = 0 THEN Raise("OutOfMemoryError", pgs, fb, "full")
               ELSE LET start_addr == FreshStart(pgs, p)
                        end_addr   == end_address(start_addr, size)
                        r          == Block(start_addr, end_addr, occupied_volume)
                    IN IF r.err # "none" THEN Raise(r.err, pgs, fb, "fresh")
                       ELSE [err |-> "none", ret |-> p,
                             pages |-> PageAppend(pgs, p, r.block),
                             free_blocks |-> fb,
                             path |-> "fresh", new |-> r.block, at |-> p]

\* alloc without the comparison of size with page_size
alloc_unchecked(pgs, fb, ps, size, occupied_volume) ==
    alloc_place(pgs, fb, ps, size, occupied_volume)

\* Allocator.alloc
alloc(pgs, fb, ps, size, occupied_volume) ==
    IF size > ps THEN Raise("OutOfMemoryError", pgs, fb, "oversized")
    ELSE alloc_place(pgs, fb, ps, size, occupied_volume)

\* Allocator._find_block : the first page, and in it the first block, whose
\* start address text equals the text of the address given
HasBlockAt(page, value) ==
    \E i \in 1..Len(page.blocks) : page.blocks[i].start_addr = value

find_block(pgs, value) ==
    IF \E p \in 1..Len(pgs) : HasBlockAt(pgs[p], value)
    THEN LET p == CHOOSE q \in 1..Len(pgs) :
                     /\ HasBlockAt(pgs[q], value)
                     /\ \A r \in 1..(q - 1) : ~HasBlockAt(pgs[r], value)
             i == CHOOSE k \in 1..Len(pgs[p].blocks) :
                     /\ pgs[p].blocks[k].start_addr = value
                     /\ \A m \in 1..(k - 1) : pgs[p].blocks[m].start_addr # value
         IN [err |-> "none", page |-> p, index |-> i]
    ELSE [err |-> "BlockNotFoundException", page |-> 0, index |-> 0]

\* the path alloc took, when it was called from _change_blocks
MovedPath == [oversized |-> "moved_oversized", reuse |-> "moved_reuse",
              full |-> "moved_full", fresh |-> "moved_fresh"]

\* Allocator._change_blocks : the else branch drops the page alloc returns
change_blocks(pgs, fb, ps, page, index, new_size) ==
    LET block   == pgs[page].blocks[index]
        removed == PageRemove(pgs, page, index)
    IN IF ps - removed[page].occupied_volume >= new_size - block.size
       THEN LET end_addr == end_address(block.start_addr, new_size)
                r == Block(block.start_addr, end_addr, block.occupied_volume)
            IN IF r.err # "none" THEN Raise(r.err, removed, fb, "inplace")
               ELSE [err |-> "none", ret |-> page,
                     pages |-> PageAppend(removed, page, r.block),
                     free_blocks |-> fb, path |-> "inplace", new |-> r.block,
                     at |-> page]
       ELSE LET a == alloc(removed, fb, ps, new_size, block.occupied_volume)
            IN [a EXCEPT !.ret = NoPage, !.path = MovedPath[a.path]]

\* Allocator.realloc
realloc(pgs, fb, ps, address, new_size) ==
    IF address # NoneAddr
    THEN LET f == find_block(pgs, address)
         IN IF f.err # "none" THEN Raise(f.err, pgs, fb, "notfound")
            ELSE change_blocks(pgs, fb, ps, f.page, f.index, new_size)
    ELSE alloc(pgs, fb, ps, new_size, 0)

\* free that puts the registry entry in front of the older ones
free_front(pgs, fb, address) ==
    LET f == find_block(pgs, address)
    IN IF f.err # "none" THEN Raise(f.err, pgs, fb, "notfound")
       ELSE LET block == pgs[f.page].blocks[f.index]
                r     == Block(block.start_addr, block.end_addr, 0)
            IN [err |-> "none", ret |-> NoPage,
                pages |-> PageRemove(pgs, f.page, f.index),
                free_blocks |-> <<[BLOCK |-> r.block, PAGE |-> f.page]>> \o fb,
                path |-> "freed", new |-> r.block, at |-> NoPage]

\* Allocator.free
free(pgs, fb, address) ==
    LET f == find_block(pgs, address)
    IN IF f.err # "none" THEN Raise(f.err, pgs, fb, "notfound")
       ELSE LET block == pgs[f.page].blocks[f.index]
                r     == Block(block.start_addr, block.end_addr, 0)
            IN [err |-> "none", ret |-> NoPage,
                pages |-> PageRemove(pgs, f.page, f.index),
                free_blocks |-> Append(fb, [BLOCK |-> r.block, PAGE |-> f.page]),
                path |-> "freed", new |-> r.block, at |-> NoPage]

---------------------------------------------------------------------------
(* The program: the class-level lists, the instances, and the last call    *)

\* what a caller observes of a call, kept for the properties: the call (op),
\* the exception raised or "none" (err), the value returned (ret: a page
\* index, 0 for None), the branch taken (path), the page that received a
\* new block (at), and whether the call before it was a free that succeeded
Observed(op, r, after_free) ==
    [op |-> op, err |-> r.err, ret |-> r.ret, path |-> r.path, at |-> r.at,
     after_free |-> after_free]

NoCall == [err |-> "none", ret |-> NoPage, path |-> "constructed",
           new |-> NoBlock, at |-> NoPage]

\* the state after the first Allocator(memory, pages_count, page_size)
Init ==
    \E c \in Configs :
        LET r == AllocatorInit(<<>>, c.memory, c.pages_count, c.page_size)
        IN /\ r.err = "none"
           /\ pages = r.pages
           /\ free_blocks = <<>>
           /\ allocators = <<r.self>>
           /\ last = Observed("init", NoCall, FALSE)
           /\ calls = 0

Instances == 1..Len(allocators)

LiveBlocks(pgs) ==
    UNION { { pgs[p].blocks[i] : i \in 1..Len(pgs[p].blocks) } : p \in 1..Len(pgs) }

\* address texts a caller passes: where a block starts or started
AddressTexts ==
    { bin(int2(b.start_addr)) : b \in LiveBlocks(pages) }
    \cup { bin(int2(free_blocks[i].BLOCK.start_addr)) : i \in 1..Len(free_blocks) }

JustFreed == last.op = "free" /\ last.err = "none"

\* one more call, while the model follows the run
Called == calls < MaxCalls /\ calls' = calls + 1

\* allocator.alloc(size, occupied_volume)
Alloc(a, size, occupied_volume) ==
    LET r == alloc(pages, free_blocks, allocators[a].page_size, size, occupied_volume)
    IN /\ Called
       /\ pages' = r.pages
       /\ free_blocks' = r.free_blocks
       /\ last' = Observed("alloc", r, JustFreed)
       /\ UNCHANGED allocators

\* allocator.realloc(Binary(text), new_size)
Realloc(a, text, new_size) ==
    LET address == Binary(text).value
        r == realloc(pages, free_blocks, allocators[a].page_size, address, new_size)
    IN /\ Called
       /\ pages' = r.pages
       /\ free_blocks' = r.free_blocks
       /\ last' = Observed("realloc", r, JustFreed)
       /\ UNCHANGED allocators

\* allocator.realloc(None, new_size)
ReallocNone(a, new_size) ==
    LET r == realloc(pages, free_blocks, allocators[a].page_size, NoneAddr, new_size)
    IN /\ Called
       /\ pages' = r.pages
       /\ free_blocks' = r.free_blocks
       /\ last' = Observed("realloc_none", r, JustFreed)
       /\ UNCHANGED allocators

\* allocator.free(Binary(text))
Free(a, text) ==
    LET address == Binary(text).value
        r == free(pages, free_blocks, address)
    IN /\ Called
       /\ pages' = r.pages
       /\ free_blocks' = r.free_blocks
       /\ last' = Observed("free", r, JustFreed)
       /\ UNCHANGED allocators

\* a further Allocator(memory, pages_count, page_size) in the same process
Construct(c) ==
    LET r == AllocatorInit(pages, c.memory, c.pages_count, c.page_size)
    IN /\ Called
       /\ Len(allocators) < MaxAllocators
       /\ pages' = r.pages
       /\ allocators' = IF r.err = "none" THEN Append(allocators, r.self)
                        ELSE allocators
       /\ last' = Observed("init", [NoCall EXCEPT !.err = r.err], JustFreed)
       /\ UNCHANGED free_blocks

AllocStep ==
    \E a \in Instances : \E size \in Sizes(allocators[a].page_size) :
        \E v \in Vols(allocators[a].page_size) : Alloc(a, size, v)

ReallocStep ==
    \E a \in Instances : \E text \in AddressTexts :
        \E size \in Sizes(allocators[a].page_size) : Realloc(a, text, size)

ReallocNoneStep ==
    \E a \in Instances : \E size \in Sizes(allocators[a].page_size) :
        ReallocNone(a, size)

FreeStep == \E a \in Instances : \E text \in AddressTexts : Free(a, text)

ConstructStep == \E c \in Configs2 : Construct(c)

\* the state after a first Allocator(512, 2, 256): two pages of 256 units
InitBig ==
    LET r == AllocatorInit(<<>>, 512, 2, 256)
    IN /\ r.err = "none"
       /\ pages = r.pages
       /\ free_blocks = <<>>
       /\ allocators = <<r.self>>
       /\ last = Observed("init", NoCall, FALSE)
       /\ calls = 0

\* one Allocator instance in the process
Next == AllocStep \/ ReallocStep \/ ReallocNoneStep \/ FreeStep

Spec == Init /\ [][Next]_vars

\* one Allocator instance with pages of 256 units
SpecBig == InitBig /\ [][Next]_vars

\* several Allocator instances in the process
NextShared == AllocStep \/ ReallocStep \/ ReallocNoneStep \/ FreeStep \/ ConstructStep

SpecShared == Init /\ [][NextShared]_vars

\* self.pages and self.free_blocks of instance a: __init__ assigns neither, so
\* both resolve to the class attributes
PagesSeenBy(a) == pages
FreeSeenBy(a) == free_blocks

TypeOK ==
    /\ \A p \in 1..Len(pages) : pages[p].occupied_volume \in Int
    /\ calls \in 0..MaxCalls
    /\ Len(allocators) <= MaxAllocators

---------------------------------------------------------------------------
(* Properties *)

First(b) == int2(b.start_addr)
Last(b)  == int2(b.end_addr)

\* positions <<page, index>> of the live blocks
Positions ==
    UNION { { <<p, i>> : i \in 1..Len(pages[p].blocks) } : p \in 1..Len(pages) }

BlockAt(pos) == pages[pos[1]].blocks[pos[2]]

PageSize(a) == allocators[a].page_size

\* the block a call has just appended to page p
Appended(p) == pages'[p].blocks[Len(pages'[p].blocks)]

\* C1: no two live blocks overlap: the address ranges [start_addr, end_addr] of
\* any two distinct blocks held by the pages are disjoint.
C1_NoOverlap ==
    \A x \in Positions : \A y \in Positions :
        x # y => (Last(BlockAt(x)) < First(BlockAt(y))
                  \/ Last(BlockAt(y)) < First(BlockAt(x)))

\* the registry entry the last call, a free, has pushed
Freed == free_blocks[Len(free_blocks)]

\* C2, as stated: a successful alloc(size, v) right after free(addr), with size
\* the freed block's size, puts the new block in the freed block's page at the
\* freed block's start_addr and end_addr with occupied_volume v, and removes
\* the freed block's registry entry.
C2_ReusesFreedRange ==
    [][\A a \in Instances : \A size \in Sizes(PageSize(a)) : \A v \in Vols(PageSize(a)) :
        (/\ JustFreed
         /\ size = Freed.BLOCK.size
         /\ Alloc(a, size, v)
         /\ last'.err = "none")
        => /\ last'.at = Freed.PAGE
           /\ last'.ret = Freed.PAGE
           /\ Appended(Freed.PAGE) = [Freed.BLOCK EXCEPT !.occupied_volume = v]
           /\ free_blocks' = SubSeq(free_blocks, 1, Len(free_blocks) - 1)]_vars

\* C2 amended: alloc(size, v) right after free(addr), with size the freed
\* block's size, either fails with OutOfMemoryError (size > page_size or
\* v > size) and changes nothing, or reuses the first registry entry, in
\* insertion order, whose block has that size (the freed block's own entry
\* when no earlier entry has it): the new block is appended to that entry's
\* page with the entry's start_addr and end_addr and occupied_volume v, that
\* page is returned, only that entry leaves the registry, and no other page
\* changes.
C2_ReusesFirstMatch ==
    [][\A a \in Instances : \A size \in Sizes(PageSize(a)) : \A v \in Vols(PageSize(a)) :
        (/\ JustFreed
         /\ size = Freed.BLOCK.size
         /\ Alloc(a, size, v))
        => \E k \in 1..Len(free_blocks) :
             /\ free_blocks[k].BLOCK.size = size
             /\ \A j \in 1..(k - 1) : free_blocks[j].BLOCK.size # size
             /\ IF size > PageSize(a) \/ v > size
                THEN /\ last'.err = "OutOfMemoryError"
                     /\ pages' = pages
                     /\ free_blocks' = free_blocks
                ELSE /\ last'.err = "none"
                     /\ last'.ret = free_blocks[k].PAGE
                     /\ pages'[free_blocks[k].PAGE].blocks
                          = Append(pages[free_blocks[k].PAGE].blocks,
                                   [free_blocks[k].BLOCK EXCEPT !.occupied_volume = v])
                     /\ \A q \in 1..Len(pages) :
                            q # free_blocks[k].PAGE => pages'[q] = pages[q]
                     /\ Len(pages') = Len(pages)
                     /\ free_blocks' = SubSeq(free_blocks, 1, k - 1)
                                       \o SubSeq(free_blocks, k + 1, Len(free_blocks))]_vars

\* C2 witness: an alloc right after a free has reused a registry entry while
\* another entry stays registered.
C2_Witness ==
    /\ last.op = "alloc" /\ last.after_free /\ last.path = "reuse"
    /\ last.err = "none" /\ free_blocks # <<>>

\* the pages alloc(6), alloc(3), alloc(2), alloc(3), alloc(6) return, one after
\* the other, on the lists pgs and fb
RECURSIVE PagesReturned(_, _, _, _)
PagesReturned(pgs, fb, ps, sizes) ==
    IF sizes = <<>> THEN <<>>
    ELSE LET r == alloc(pgs, fb, ps, Head(sizes), 0)
         IN <<r.ret>> \o PagesReturned(r.pages, r.free_blocks, ps, Tail(sizes))

\* Allocator(32, 4, 8), alone in its process
Fresh4x8 == AllocatorInit(<<>>, 32, 4, 8)

\* C3, the example: on a fresh 4x8 allocator alloc(6) returns the first page
\* holding a single block that starts at address 0, and alloc(6), alloc(3),
\* alloc(2), alloc(3), alloc(6) land in the pages 0, 1, 0, 1, 2 (here 1, 2, 1, 2, 3).
C3_Example ==
    LET r == alloc(Fresh4x8.pages, <<>>, Fresh4x8.self.page_size, 6, 0)
    IN /\ Fresh4x8.err = "none"
       /\ Len(Fresh4x8.pages) = 4
       /\ r.err = "none" /\ r.ret = 1
       /\ Len(r.pages[1].blocks) = 1
       /\ First(r.pages[1].blocks[1]) = 0
       /\ PagesReturned(Fresh4x8.pages, <<>>, Fresh4x8.self.page_size,
                        <<6, 3, 2, 3, 6>>) = <<1, 2, 1, 2, 3>>

\* C3: fresh placement is first-fit in page-creation order: a successful
\* alloc(size) that finds no registry entry of that size appends the new block
\* to the lowest-index page with page_size - occupied_volume >= size, starting
\* one past the end address of that page's last block (at the page's start
\* address if the page is empty) and ending at start + 256*size - 1; it
\* returns that page and leaves the other pages and the registry unchanged.
\* The example of C3_Example holds as well.
C3_FirstFit ==
    [][/\ C3_Example
       /\ \A a \in Instances : \A size \in Sizes(PageSize(a)) : \A v \in Vols(PageSize(a)) :
            (/\ Alloc(a, size, v)
             /\ \A k \in 1..Len(free_blocks) : free_blocks[k].BLOCK.size # size
             /\ last'.err = "none")
            => \E p \in 1..Len(pages) :
                 /\ PageSize(a) - pages[p].occupied_volume >= size
                 /\ \A q \in 1..(p - 1) : PageSize(a) - pages[q].occupied_volume < size
                 /\ last'.ret = p
                 /\ Len(pages'[p].blocks) = Len(pages[p].blocks) + 1
                 /\ SubSeq(pages'[p].blocks, 1, Len(pages[p].blocks)) = pages[p].blocks
                 /\ First(Appended(p)) =
                       (IF pages[p].blocks = <<>> THEN int2(pages[p].start_addr)
                        ELSE Last(pages[p].blocks[Len(pages[p].blocks)]) + 1)
                 /\ Last(Appended(p)) = First(Appended(p)) + (256 * size) - 1
                 /\ Len(pages') = Len(pages)
                 /\ \A q \in 1..Len(pages) : q # p => pages'[q] = pages[q]
                 /\ free_blocks' = free_blocks]_vars

\* C3 witness: a fresh placement has skipped the full first page and put its
\* block behind another block of the second page.
C3_Witness ==
    /\ last.op = "alloc" /\ last.path = "fresh" /\ last.err = "none"
    /\ last.at = 2 /\ Len(pages[2].blocks) >= 2

\* C4: a successful alloc(size, v) with 1 <= size <= page_size returns a page
\* that contains a newly placed block whose size equals the requested size and
\* whose occupied_volume equals v, for every page size, 256 and above included.
C4_RequestedSize ==
    [][\A a \in Instances : \A size \in Sizes(PageSize(a)) : \A v \in Vols(PageSize(a)) :
        (/\ 1 <= size /\ size <= PageSize(a)
         /\ Alloc(a, size, v)
         /\ last'.err = "none")
        => /\ last'.ret # NoPage
           /\ Appended(last'.ret).size = size
           /\ Appended(last'.ret).occupied_volume = v]_vars

\* C5: a successful realloc(address, new_size) on an existing block returns the
\* page that now contains the resized block, when the block is resized in
\* place and when it is placed again through alloc.
C5_ReturnsPage ==
    (last.op = "realloc" /\ last.err = "none")
        => (last.ret # NoPage /\ last.ret = last.at)

\* C6: no partial success: a call of alloc, realloc or free that fails with an
\* error leaves every page's block sequence and occupied_volume and the free
\* registry as they were before the call; a realloc that fails does not lose
\* the block it was asked to resize.
C6_NoPartialSuccess ==
    [][(last'.op \in {"alloc", "realloc", "realloc_none", "free"} /\ last'.err # "none")
        => (pages' = pages /\ free_blocks' = free_blocks)]_vars

\* C7: when realloc(address, new_size) finds the block and the owning page's
\* remaining capacity after removing the block is >= new_size - old_size, the
\* block is resized in place: the same page then holds a block with the same
\* start address, size new_size and the same occupied_volume, the page's
\* occupied_volume has changed by exactly new_size - old_size, and the other
\* pages and the registry are unchanged.  Stated here for the new sizes a
\* block can have at all: new_size >= 1 and new_size >= its occupied_volume.
C7_ResizedInPlace ==
    [][\A a \in Instances : \A text \in AddressTexts : \A new_size \in Sizes(PageSize(a)) :
        LET f == find_block(pages, Binary(text).value)
            p == f.page
            b == pages[p].blocks[f.index]
        IN (/\ Realloc(a, text, new_size)
            /\ f.err = "none"
            /\ new_size >= 1 /\ new_size >= b.occupied_volume
            /\ PageSize(a) - (pages[p].occupied_volume - b.size) >= new_size - b.size)
           => /\ last'.err = "none"
              /\ \E i \in 1..Len(pages'[p].blocks) :
                    /\ pages'[p].blocks[i].start_addr = b.start_addr
                    /\ pages'[p].blocks[i].size = new_size
                    /\ pages'[p].blocks[i].occupied_volume = b.occupied_volume
              /\ pages'[p].occupied_volume = pages[p].occupied_volume + (new_size - b.size)
              /\ \A q \in 1..Len(pages) : q # p => pages'[q] = pages[q]
              /\ free_blocks' = free_blocks]_vars

\* C8: each Allocator instance has its own page set and free registry:
\* constructing a second Allocator, or calling alloc, realloc or free on it,
\* leaves the pages and the registry seen by the first Allocator unchanged,
\* and a newly constructed Allocator starts with exactly pages_count empty
\* pages and an empty registry.
C8_OwnPagesAndRegistry ==
    [][/\ (last'.op = "init" \/ \E a \in Instances \ {1} :
              \/ \E size \in Sizes(PageSize(a)) : \E v \in Vols(PageSize(a)) : Alloc(a, size, v)
              \/ \E size \in Sizes(PageSize(a)) : ReallocNone(a, size)
              \/ \E text \in AddressTexts : Free(a, text)
              \/ \E text \in AddressTexts : \E size \in Sizes(PageSize(a)) :
                    Realloc(a, text, size))
          => (PagesSeenBy(1)' = PagesSeenBy(1) /\ FreeSeenBy(1)' = FreeSeenBy(1))
       /\ \A c \in Configs2 :
            (Construct(c) /\ last'.err = "none")
            => /\ Len(PagesSeenBy(Len(allocators'))') = c.pages_count
               /\ \A p \in 1..Len(pages') : pages'[p].blocks = <<>>
               /\ FreeSeenBy(Len(allocators'))' = <<>>]_vars

\* C9: alloc(size, v) with size > page_size fails with OutOfMemoryError in
\* every reachable state, whatever the pages and the registry contain, and
\* leaves pages and registry unchanged.
C9_OversizedFails ==
    [][\A a \in Instances : \A size \in Sizes(PageSize(a)) : \A v \in Vols(PageSize(a)) :
        (size > PageSize(a) /\ Alloc(a, size, v))
        => /\ last'.err = "OutOfMemoryError"
           /\ pages' = pages
           /\ free_blocks' = free_blocks]_vars

\* C9 witness: an oversized alloc has failed while the registry holds a block
\* of a size above page_size and a page holds blocks.
C9_Witness ==
    /\ last.op = "alloc" /\ last.path = "oversized" /\ last.err = "OutOfMemoryError"
    /\ \E k \in 1..Len(free_blocks) : free_blocks[k].BLOCK.size > PageSize(1)
    /\ Positions # {}

\* C10: a block is never created with occupied_volume greater than its size:
\* alloc(size, v) with v > size fails with OutOfMemoryError on the reuse path
\* and on the fresh-placement path and leaves pages and registry unchanged, so
\* every live block has occupied_volume <= size.  Stated here for size >= 1.
C10_VolumeWithinSize ==
    [][/\ \A a \in Instances : \A size \in Sizes(PageSize(a)) : \A v \in Vols(PageSize(a)) :
            (size >= 1 /\ v > size /\ Alloc(a, size, v))
            => /\ last'.err = "OutOfMemoryError"
               /\ pages' = pages
               /\ free_blocks' = free_blocks
       /\ \A b \in LiveBlocks(pages') : b.occupied_volume <= b.size]_vars

---------------------------------------------------------------------------
(* Single constructions in a process that has made no call yet *)

\* the class attributes as the class statement leaves them
InitStart ==
    /\ pages = <<>>
    /\ free_blocks = <<>>
    /\ allocators = <<>>
    /\ last = [op |-> "start", err |-> "none", args |-> <<>>, value |-> <<>>]
    /\ calls = 0

\* Allocator(memory, pages_count, page_size), the first in its process
NewAllocator(memory, pages_count, page_size) ==
    LET r == AllocatorInit(pages, memory, pages_count, page_size)
    IN /\ last.op = "start"
       /\ pages' = r.pages
       /\ allocators' = IF r.err = "none" THEN <<r.self>> ELSE allocators
       /\ last' = [op |-> "Allocator", err |-> r.err,
                   args |-> <<memory, pages_count, page_size>>, value |-> <<>>]
       /\ UNCHANGED <<free_blocks, calls>>

NewAllocatorStep ==
    \E memory \in 0..MaxMemory : \E pages_count \in 0..MaxPagesCount :
        \E page_size \in 1..MaxPageSize : NewAllocator(memory, pages_count, page_size)

\* Block(bin(start), bin(end), occupied_volume)
NewBlock(start, end, occupied_volume) ==
    LET r == Block(bin(start), bin(end), occupied_volume)
    IN /\ last.op = "start"
       /\ last' = [op |-> "Block", err |-> r.err,
                   args |-> <<start, end, occupied_volume>>, value |-> r.block]
       /\ UNCHANGED <<pages, free_blocks, allocators, calls>>

NewBlockStep ==
    \E start \in 0..MaxStart : \E end \in 0..MaxEnd :
        \E occupied_volume \in 0..MaxVolume : NewBlock(start, end, occupied_volume)

\* the binary texts of n: bare digits, with the 0b prefix, and each of the two
\* with one leading zero
BinaryTexts(n) ==
    { Digits(n), <<"0", "b">> \o Digits(n),
      <<"0">> \o Digits(n), <<"0", "b", "0">> \o Digits(n) }

\* Binary.__eq__
BinaryEq(self, other) == self.value = shorten(other.value)

\* Binary(text1) == Binary(text2)
CompareBinary(text1, text2) ==
    /\ last.op = "start"
    /\ last' = [op |-> "Binary_eq", err |-> "none", args |-> <<text1, text2>>,
                value |-> BinaryEq(Binary(text1), Binary(text2))]
    /\ UNCHANGED <<pages, free_blocks, allocators, calls>>

CompareBinaryStep ==
    \E n \in 0..MaxValue : \E m \in 0..MaxValue :
        \E text1 \in BinaryTexts(n) : \E text2 \in BinaryTexts(m) :
            CompareBinary(text1, text2)

NextValues == NewAllocatorStep \/ NewBlockStep \/ CompareBinaryStep

SpecValues == InitStart /\ [][NextValues]_vars

PowersOfTwo == { 2 ^ k : k \in 0..(MaxPageSize + 1) }

\* page_size rounded up to the next power of two
RoundedUp(page_size) ==
    CHOOSE P \in PowersOfTwo :
        /\ P >= page_size
        /\ \A Q \in PowersOfTwo : Q >= page_size => P <= Q

\* C11: Allocator(memory, pages_count, page_size) succeeds if and only if
\* P * pages_count = memory, P being page_size rounded up to the next power of
\* two; otherwise it fails with MemoryAllocationError and creates no pages;
\* (32, 4, 8) succeeds and (32, 8, 8) fails.
C11_ConstructionIff ==
    last.op = "Allocator" =>
        LET memory == last.args[1]
            pages_count == last.args[2]
            P == RoundedUp(last.args[3])
        IN /\ (last.err = "none") <=> (P * pages_count = memory)
           /\ last.err = "none" =>
                (Len(pages) = pages_count /\ Len(allocators) = 1
                 /\ allocators[1].page_size = P)
           /\ last.err # "none" =>
                (last.err = "MemoryAllocationError" /\ pages = <<>> /\ allocators = <<>>)
           /\ last.args = <<32, 4, 8>> => last.err = "none"
           /\ last.args = <<32, 8, 8>> => last.err = "MemoryAllocationError"

\* C11 witness: a construction whose page size had to be rounded up (5 to 8)
\* has succeeded and made its four pages.
C11_Witness ==
    /\ last.op = "Allocator" /\ last.args = <<32, 4, 5>>
    /\ last.err = "none" /\ Len(pages) = 4

\* the number of pages the first allocator was constructed with
PagesCount == (allocators[1].memory + 1) \div (256 * PageSize(1))

\* the pages laid out back to back from address 0, 256 * page_size addresses each
BackToBack ==
    /\ Len(pages) = PagesCount
    /\ \A i \in 1..Len(pages) :
          /\ int2(pages[i].start_addr) = (i - 1) * 256 * PageSize(1)
          /\ int2(pages[i].end_addr) = (i * 256 * PageSize(1)) - 1
          /\ i > 1 => int2(pages[i].start_addr) = int2(pages[i - 1].end_addr) + 1

\* C12: after a successful construction with page size P and n pages the
\* allocator has exactly n pages laid out back to back from address 0, page i
\* spanning [i*256*P, (i+1)*256*P - 1], each of computed size P, and this page
\* set stays the same after any sequence of alloc, realloc and free.
C12_PageLayout ==
    /\ BackToBack
    /\ \A i \in 1..Len(pages) :
          calculate_size(pages[i].start_addr, pages[i].end_addr) = PageSize(1)

\* position pos is the first, pages in creation order and blocks in list
\* order, whose block starts at address n
FirstAt(pos, n) ==
    /\ First(BlockAt(pos)) = n
    /\ \A other \in Positions :
          First(BlockAt(other)) = n =>
             (pos[1] < other[1] \/ (pos[1] = other[1] /\ pos[2] <= other[2]))

\* C13: free(address) on an existing block removes exactly that block from its
\* page, decreases that page's occupied_volume by the block's size and appends
\* exactly one entry to the end of the registry, holding the same start and end
\* addresses with occupied_volume 0 and the owning page; every other block,
\* every other page and the earlier registry entries are unchanged, and the
\* freed range is not merged with a neighbour.
C13_FreeFrame ==
    [][\A a \in Instances : \A text \in AddressTexts :
        (/\ Free(a, text)
         /\ \E pos \in Positions : First(BlockAt(pos)) = int2(text))
        => \E pos \in Positions :
             LET p == pos[1]
                 i == pos[2]
                 b == BlockAt(pos)
             IN /\ FirstAt(pos, int2(text))
                /\ last'.err = "none"
                /\ Len(pages') = Len(pages)
                /\ Len(pages'[p].blocks) = Len(pages[p].blocks) - 1
                /\ \A j \in 1..(i - 1) : pages'[p].blocks[j] = pages[p].blocks[j]
                /\ \A j \in i..Len(pages'[p].blocks) :
                      pages'[p].blocks[j] = pages[p].blocks[j + 1]
                /\ pages'[p].occupied_volume = pages[p].occupied_volume - b.size
                /\ pages'[p].start_addr = pages[p].start_addr
                /\ pages'[p].end_addr = pages[p].end_addr
                /\ \A q \in 1..Len(pages) : q # p => pages'[q] = pages[q]
                /\ free_blocks' =
                      Append(free_blocks,
                             [BLOCK |-> [start_addr |-> b.start_addr,
                                         end_addr |-> b.end_addr,
                                         size |-> b.size, occupied_volume |-> 0],
                              PAGE |-> p])]_vars

\* C13 witness: a free has pushed a second registry entry, taking a block out
\* of a page that still holds another block.
C13_Witness ==
    /\ last.op = "free" /\ last.err = "none"
    /\ Len(free_blocks) >= 2
    /\ pages[Freed.PAGE].blocks # <<>>

\* some live block starts at address n
Starts(pgs, n) == \E b \in LiveBlocks(pgs) : First(b) = n

\* C14, the equivalence: realloc(address, n) with an address given and
\* free(address) fail with BlockNotFoundException if and only if no live block
\* of any page starts at address.
C14_NotFoundIff ==
    [][\A a \in Instances : \A text \in AddressTexts :
        /\ Free(a, text)
             => ((last'.err = "BlockNotFoundException") <=> ~Starts(pages, int2(text)))
        /\ \A size \in Sizes(PageSize(a)) :
             Realloc(a, text, size)
             => ((last'.err = "BlockNotFoundException") <=> ~Starts(pages, int2(text)))]_vars

\* C14: the equivalence of C14_NotFoundIff, and an address whose block has
\* just been freed is no longer found.
C14_NotFound ==
    [][\A a \in Instances : \A text \in AddressTexts :
        /\ Free(a, text)
             => /\ (last'.err = "BlockNotFoundException") <=> ~Starts(pages, int2(text))
                /\ last'.err = "none" => ~Starts(pages', int2(text))
        /\ \A size \in Sizes(PageSize(a)) :
             Realloc(a, text, size)
             => ((last'.err = "BlockNotFoundException") <=> ~Starts(pages, int2(text)))]_vars

\* C15: for all start, end with end > start, Block(start, end) is constructed
\* with size (end - start) / 255, the quotient taken as its integer part, and
\* that size is a positive integer; for end <= start the construction fails
\* with NotCorrectAddressesException.
C15_BlockSize ==
    (last.op = "Block" /\ last.args[3] = 0) =>
        LET start == last.args[1]
            end   == last.args[2]
        IN /\ end > start =>
                /\ last.err = "none"
                /\ last.value.size = (end - start) \div 255
                /\ last.value.size >= 1
           /\ end <= start => last.err = "NotCorrectAddressesException"

\* the pages of Allocator(4, 2, 2) after alloc(1) and alloc(1)
TwoBlocks ==
    LET made == AllocatorInit(<<>>, 4, 2, 2)
        one  == alloc(made.pages, <<>>, made.self.page_size, 1, 0)
    IN alloc(one.pages, one.free_blocks, made.self.page_size, 1, 0).pages

\* C16: address equality is by integer value: two addresses whose binary texts
\* denote the same integer, differing only by the 0b prefix or by leading
\* zeros, compare equal, and realloc and free given either form locate the
\* same block.
C16_EqualByValue ==
    last.op = "Binary_eq" =>
        LET text1 == last.args[1]
            text2 == last.args[2]
        IN int2(text1) = int2(text2) =>
             /\ last.value = TRUE
             /\ find_block(TwoBlocks, Binary(text1).value)
                  = find_block(TwoBlocks, Binary(text2).value)

RECURSIVE SumSizes(_)
SumSizes(blocks) ==
    IF blocks = <<>> THEN 0 ELSE Head(blocks).size + SumSizes(Tail(blocks))

\* C17: in every state reachable by successful or failing alloc, realloc and
\* free, each page's occupied_volume equals the sum of the sizes of the blocks
\* it currently contains.
C17_VolumeIsSum ==
    \A p \in 1..Len(pages) : pages[p].occupied_volume = SumSizes(pages[p].blocks)

\* a realloc has failed after it removed the block, and blocks remain
C17_Witness ==
    /\ last.op = "realloc"
    /\ last.err \notin {"none", "BlockNotFoundException"}
    /\ Positions # {}

\* C18: every page's occupied_volume stays within 0..page capacity: a page
\* never holds blocks whose sizes sum to more than its capacity, also after
\* reuse of a registry entry and after an in-place realloc.
C18_WithinCapacity ==
    \A p \in 1..Len(pages) :
        /\ 0 <= pages[p].occupied_volume
        /\ pages[p].occupied_volume <= PageSize(1)

\* C19: every block held by a page lies inside that page's address range:
\* page.start_addr <= block.start_addr and block.end_addr <= page.end_addr.
C19_BlockInsidePage ==
    \A pos \in Positions :
        /\ int2(pages[pos[1]].start_addr) <= First(BlockAt(pos))
        /\ Last(BlockAt(pos)) <= int2(pages[pos[1]].end_addr)

\* C20: when realloc(address, new_size) cannot resize in place (the owning
\* page's remaining capacity after removing the block is < new_size - old_size)
\* and succeeds, the original block is gone from its page, exactly one new
\* block of size new_size carrying the removed block's occupied_volume has been
\* placed by alloc's rules (registry reuse first, then first-fit), and the
\* registry has gained no entry: the vacated range is not registered.
C20_Moved ==
    [][\A a \in Instances : \A text \in AddressTexts : \A new_size \in Sizes(PageSize(a)) :
        LET f == find_block(pages, Binary(text).value)
            p == f.page
            b == pages[p].blocks[f.index]
            removed == [pages EXCEPT ![p].blocks = RemoveAt(@, f.index),
                                     ![p].occupied_volume = @ - b.size]
            index == FirstFree(free_blocks, new_size)
            q == IF index # 0 THEN free_blocks[index].PAGE
                 ELSE FirstFit(removed, PageSize(a), new_size)
        IN (/\ Realloc(a, text, new_size)
            /\ f.err = "none"
            /\ PageSize(a) - (pages[p].occupied_volume - b.size) < new_size - b.size
            /\ last'.err = "none")
           => /\ q # 0
              /\ Appended(q).size = new_size
              /\ Appended(q).occupied_volume = b.occupied_volume
              /\ pages' = [removed EXCEPT ![q].blocks = Append(@, Appended(q)),
                                          ![q].occupied_volume = @ + new_size]
              /\ IF index # 0
                 THEN /\ Appended(q).start_addr = free_blocks[index].BLOCK.start_addr
                      /\ Appended(q).end_addr = free_blocks[index].BLOCK.end_addr
                      /\ free_blocks' = RemoveAt(free_blocks, index)
                 ELSE /\ Appended(q).start_addr = FreshStart(removed, q)
                      /\ free_blocks' = free_blocks]_vars

====
